---- MODULE Spec2Model ----
(***************************************************************************)
(* ross: the Material record (ross/materials.py), its file-backed catalog  *)
(* of named materials, and the Rotor assembler/solver the examples drive.  *)
(*                                                                         *)
(* Python values are records [t, n, d, s]: None, a number n/d (an exact    *)
(* rational in lowest terms, d > 0) or a string s (a sequence of           *)
(* characters).  Arithmetic is exact rational arithmetic: IEEE rounding of *)
(* Python floats is not modelled.                                          *)
(***************************************************************************)
EXTENDS Integers, Sequences, FiniteSets, TLC

VARIABLES
    call,   \* SpecCtor: the constructor call Init draws, and whether it is still to be made
    mats,   \* the Material objects in memory, by variable name; each is its __dict__
    fs,     \* the catalog files that exist, by path; each is its TOML document
    saved,  \* history: the names saved to the path saved.path and not removed from it since
    ret,    \* the latest call: what was called, with what, and what it returned or raised
    rotor   \* the Rotor the latest Rotor(...) call produced

vars == <<call, mats, fs, saved, ret, rotor>>

----------------------------------------------------------------------------
(* Python values *)

None == [t |-> "none", n |-> 0, d |-> 1, s |-> <<>>]

Str(s) == [t |-> "str", n |-> 0, d |-> 1, s |-> s]

Abs(x) == IF x < 0 THEN -x ELSE x

RECURSIVE GCD(_, _)
GCD(a, b) == IF b = 0 THEN a ELSE GCD(b, a % b)

\* the number n/d, d # 0, in lowest terms with a positive denominator
Num(n, d) ==
    LET g == GCD(Abs(n), Abs(d))
        sg == IF d < 0 THEN -1 ELSE 1
    IN [t |-> "num", n |-> sg * (n \div g), d |-> sg * (d \div g), s |-> <<>>]

Number(i) == Num(i, 1)

IsNone(v) == v.t = "none"
IsNum(v) == v.t = "num"
IsStr(v) == v.t = "str"

RAdd(a, b) == Num(a.n * b.d + b.n * a.d, a.d * b.d)
RSub(a, b) == Num(a.n * b.d - b.n * a.d, a.d * b.d)
RMul(a, b) == Num(a.n * b.n, a.d * b.d)
\* b is not zero
RDiv(a, b) == Num(a.n * b.d, a.d * b.n)
IsZero(a) == a.n = 0

----------------------------------------------------------------------------
(* Material.__init__ *)

DefaultColor == Str(<<"#", "5", "2", "5", "2", "5", "2">>)

\* kwargs.get(key, default)
Get(kwargs, key, default) ==
    IF key \in DOMAIN kwargs THEN kwargs[key] ELSE default

\* a count of every keyword, color included: len(kwargs)
PropertyCountAll(kwargs) == Cardinality(DOMAIN kwargs)

\* sum([1 if i in ["E", "G_s", "Poisson"] else 0 for i in kwargs])
PropertyCount(kwargs) == Cardinality(DOMAIN kwargs \cap {"E", "G_s", "Poisson"})

\* " " in name
HasSpace(s) == \E i \in 1..Len(s) : s[i] = " "

NoObj == [k \in {} |-> None]

Raise(status, msg) == [status |-> status, msg |-> msg, obj |-> NoObj]

Return(obj) == [status |-> "ok", msg |-> "", obj |-> obj]

Obj(name, rho, E, Poisson, G_s, color) ==
    [k \in {"_name", "rho", "E", "Poisson", "G_s", "color"} |->
        CASE k = "_name" -> name
          [] k = "rho" -> rho
          [] k = "E" -> E
          [] k = "Poisson" -> Poisson
          [] k = "G_s" -> G_s
          [] OTHER -> color]

\* self.E = self.G_s * (2 * (1 + self.Poisson))
DeriveE(G_s, Poisson) == RMul(G_s, RMul(Number(2), RAdd(Number(1), Poisson)))

\* a slip of precedence: self.E / 2 * (1 + self.Poisson)
DeriveG_sUnbracketed(E, Poisson) == RMul(RDiv(E, Number(2)), RAdd(Number(1), Poisson))

\* self.G_s = self.E / (2 * (1 + self.Poisson))
DeriveG_s(E, Poisson) == RDiv(E, RMul(Number(2), RAdd(Number(1), Poisson)))

\* self.Poisson = (self.E / (2 * self.G_s)) - 1
DerivePoisson(E, G_s) == RSub(RDiv(E, RMul(Number(2), G_s)), Number(1))

\* the three-way derivation at the end of __init__; the operands are numbers
\* or None, and an arithmetic operator applied to None raises TypeError
Derive(name, rho, E, Poisson, G_s, color) ==
    IF IsNone(E) THEN
        IF IsNone(Poisson) \/ IsNone(G_s) THEN Raise("TypeError", "unsupported operand")
        ELSE Return(Obj(name, rho, DeriveE(G_s, Poisson), Poisson, G_s, color))
    ELSE IF IsNone(G_s) THEN
        IF IsNone(Poisson) THEN Raise("TypeError", "unsupported operand")
        ELSE IF IsZero(RMul(Number(2), RAdd(Number(1), Poisson)))
        THEN Raise("ZeroDivisionError", "division by zero")
        ELSE Return(Obj(name, rho, E, Poisson, DeriveG_s(E, Poisson), color))
    ELSE IF IsNone(Poisson) THEN
        IF IsZero(RMul(Number(2), G_s))
        THEN Raise("ZeroDivisionError", "division by zero")
        ELSE Return(Obj(name, rho, E, DerivePoisson(E, G_s), G_s, color))
    ELSE Return(Obj(name, rho, E, Poisson, G_s, color))

\* Material(name, rho, **kwargs)
__init__(name, rho, kwargs) ==
    IF IsNone(name) THEN Raise("AssertionError", "Name not provided")
    ELSE IF ~IsStr(name) THEN Raise("AssertionError", "Name must be a string")
    ELSE IF HasSpace(name.s)
    THEN Raise("AssertionError", "Spaces are not allowed in Material name")
    ELSE IF ~(PropertyCount(kwargs) > 1)
    THEN Raise("AssertionError",
               "At least 2 arguments from E, G_s and Poisson should be provided")
    ELSE Derive(name, rho,
                Get(kwargs, "E", None), Get(kwargs, "Poisson", None),
                Get(kwargs, "G_s", None), Get(kwargs, "color", DefaultColor))

----------------------------------------------------------------------------
(* Material.__eq__ *)

\* the attributes in the order __init__ sets them (self.__dict__'s order)
AttrOrder == <<"_name", "rho", "E", "Poisson", "G_s", "color">>

\* [v for v in obj.__dict__.values() if isinstance(v, (float, int))]
NumericList(obj) ==
    LET all == [i \in 1..Len(AttrOrder) |-> obj[AttrOrder[i]]]
    IN SelectSeq(all, IsNum)

\* numpy.isclose on two numbers with the default tolerances:
\* |a - b| <= atol + rtol * |b|, atol = 1e-8, rtol = 1e-5
\* (both sides multiplied by a.d * b.d * 10^8, the right one rounded down)
IsClose(a, b) ==
    Abs(a.n * b.d - b.n * a.d) <= (a.d * b.d + Abs(b.n) * a.d * 1000) \div 100000000

\* numpy.allclose on two lists of the same length
AllClose(xs, ys) == \A i \in 1..Len(xs) : IsClose(xs[i], ys[i])

\* self == other: both lists are built from self.__dict__
__eq__(self, other) ==
    LET self_list == NumericList(self)
        other_list == NumericList(self)
    IN IF AllClose(self_list, other_list) THEN TRUE ELSE FALSE

----------------------------------------------------------------------------
(* Material.name *)

Digit(i) == <<"0", "1", "2", "3", "4", "5", "6", "7", "8", "9">>[i + 1]

RECURSIVE Digits(_)
Digits(i) == IF i < 10 THEN <<Digit(i)>> ELSE Digits(i \div 10) \o <<Digit(i % 10)>>

\* str(v) for None, an integer or a string
StrOf(v) ==
    CASE IsStr(v) -> v
      [] IsNone(v) -> Str(<<"N", "o", "n", "e">>)
      [] OTHER -> Str((IF v.n < 0 THEN <<"-">> ELSE <<>>) \o Digits(Abs(v.n)))

\* @name.setter: self._name = str(name)
SetName(self, name) == [self EXCEPT !["_name"] = StrOf(name)]

----------------------------------------------------------------------------
(* the catalog file available_materials.toml under a path *)

\* os.path.dirname(rs.__file__), the default of every path parameter
DefaultPath == "ross"

\* toml.dump: one table per material under [Materials]; a key whose value is
\* None is not written
TomlDump(data) ==
    [sec \in DOMAIN data |->
        [nm \in DOMAIN data[sec] |->
            [k \in {k \in DOMAIN data[sec][nm] : ~IsNone(data[sec][nm][k])} |->
                data[sec][nm][k]]]]

\* toml.load: the tables of the document as nested dicts
TomlLoad(text) == text

EmptyData == [Materials |-> [nm \in {} |-> NoObj]]

\* Material.dump_data(data, path): the file is rewritten whole
dump_data(files, data, path) ==
    [p \in DOMAIN files \cup {path} |->
        IF p = path THEN TomlDump(data) ELSE files[p]]

\* load_data reading the default path whatever path it is given
load_data_default(files, path) ==
    IF DefaultPath \in DOMAIN files
    THEN [data |-> TomlLoad(files[DefaultPath]), files |-> files]
    ELSE [data |-> EmptyData, files |-> dump_data(files, EmptyData, DefaultPath)]

\* Material.load_data(path): a missing file is created holding no material
load_data(files, path) ==
    IF path \in DOMAIN files
    THEN [data |-> TomlLoad(files[path]), files |-> files]
    ELSE [data |-> EmptyData, files |-> dump_data(files, EmptyData, path)]

\* Material(**material)
FromDict(material) ==
    IF ~({"name", "rho"} \subseteq DOMAIN material)
    THEN Raise("TypeError", "missing required positional argument")
    ELSE __init__(material["name"], material["rho"],
                  [k \in DOMAIN material \ {"name", "rho"} |-> material[k]])

\* Material.use_material(name, path)
use_material(files, name, path) ==
    LET l == load_data(files, path)
    IN IF name \in DOMAIN l.data.Materials
       THEN [r |-> FromDict(l.data.Materials[name]), files |-> l.files]
       ELSE [r |-> Raise("KeyError", "There isn't a instanced material with this name."),
             files |-> l.files]

\* del d[key]
Del(d, key) == [k \in DOMAIN d \ {key} |-> d[k]]

\* d[key] = value
Put(d, key, value) == [k \in DOMAIN d \cup {key} |-> IF k = key THEN value ELSE d[k]]

\* Material.remove_material(name, path): reads and writes the default path
remove_material(files, name, path) ==
    LET l == load_data(files, DefaultPath)
    IN IF name \in DOMAIN l.data.Materials
       THEN [r |-> Return(NoObj),
             files |-> dump_data(l.files,
                                 [l.data EXCEPT !.Materials = Del(@, name)],
                                 DefaultPath)]
       ELSE [r |-> [status |-> "ok",
                    msg |-> "There isn't a saved material with this name.",
                    obj |-> NoObj],
             files |-> l.files]

RECURSIVE SetToSeq(_)
SetToSeq(S) ==
    IF S = {} THEN <<>>
    ELSE LET x == CHOOSE y \in S : TRUE IN <<x>> \o SetToSeq(S \ {x})

\* Material.available_materials(path): list(data["Materials"].keys())
available_materials(files, path) ==
    LET l == load_data(files, path)
    IN [val |-> SetToSeq(DOMAIN l.data.Materials), files |-> l.files]

\* material_dict = self.__dict__.copy(); material_dict['name'] = material_dict.pop('_name')
MaterialDict(self) ==
    [k \in (DOMAIN self \ {"_name"}) \cup {"name"} |->
        IF k = "name" THEN self["_name"] ELSE self[k]]

\* self.save_material(path)
save_material(self, files, path) ==
    LET l == load_data(files, path)
        data == [l.data EXCEPT !.Materials = Put(@, self["_name"], MaterialDict(self))]
    IN dump_data(l.files, data, path)

----------------------------------------------------------------------------
(* Rotor: the assembler and the modal solver *)

\* degrees of freedom per node: two lateral translations and two rotations
DofPerNode == 4

\* only a negative node is rejected, as when a node past the end is clamped
OutOfRangeBelow(n_el, n) == n < 0

\* a disk or bearing node the assembler must reject
OutOfRange(n_el, n) == n < 0 \/ n > n_el

\* the global degrees of freedom of a block of `nodes` nodes starting at node n
Block(n, nodes) == (n * DofPerNode)..((n + nodes) * DofPerNode - 1)

\* scatter-add: how many of the blocks cover global degree of freedom i
Accumulate(dim, blocks) ==
    [i \in 0..(dim - 1) |-> Cardinality({j \in 1..Len(blocks) : i \in blocks[j]})]

NoRotor ==
    [built |-> FALSE, n_el |-> 0, disks |-> {}, bearings |-> {}, dim |-> 0,
     M |-> <<>>, K |-> <<>>, C |-> <<>>,
     ran |-> FALSE, evalues |-> <<>>, wn |-> <<>>, wd |-> <<>>]

\* Rotor(shaft_elm, disks, bearings): shaft element i spans nodes i, i+1 for
\* i in range(n_el); a disk is its node, a bearing <<node, cxx = cyy>>
Rotor(n_el, disks, bearings) ==
    IF \/ \E n \in disks : OutOfRange(n_el, n)
       \/ \E b \in bearings : OutOfRange(n_el, b[1])
    THEN [status |-> "error", msg |-> "node index out of range", rotor |-> NoRotor]
    ELSE LET dim == (n_el + 1) * DofPerNode
             shaft == [i \in 1..n_el |-> Block(i - 1, 2)]
             disk == [i \in 1..Cardinality(disks) |-> Block(SetToSeq(disks)[i], 1)]
             bear == [i \in 1..Cardinality(bearings) |->
                         Block(SetToSeq(bearings)[i][1], 1)]
         IN [status |-> "ok", msg |-> "",
             rotor |-> [NoRotor EXCEPT !.built = TRUE, !.n_el = n_el,
                                       !.disks = disks, !.bearings = bearings,
                                       !.dim = dim,
                                       !.M = Accumulate(dim, shaft \o disk),
                                       !.K = Accumulate(dim, shaft \o bear),
                                       !.C = Accumulate(dim, bear)]]

\* C = 0: no bearing has a damping coefficient
Undamped(r) == \A b \in r.bearings : b[2] = 0

\* |lambda| for lambda = -sigma + i*omega_d, on the pairs whose magnitude is whole
Magnitude(ev) ==
    LET sq == ev[1] * ev[1] + ev[2] * ev[2]
    IN CHOOSE m \in 0..sq : m * m = sq

RECURSIVE Insert(_, _)
Insert(x, s) ==
    IF s = <<>> THEN <<x>>
    ELSE IF x <= Head(s) THEN <<x>> \o s
    ELSE <<Head(s)>> \o Insert(x, Tail(s))

RECURSIVE SortAsc(_)
SortAsc(s) == IF s = <<>> THEN <<>> ELSE Insert(Head(s), SortAsc(Tail(s)))

\* wd: the damped frequency omega_d of each conjugate pair, sorted ascending
Wd(evalues) == SortAsc([i \in 1..Len(evalues) |-> evalues[i][2]])

RECURSIVE InsertPair(_, _)
InsertPair(ev, s) ==
    IF s = <<>> THEN <<ev>>
    ELSE IF ev[2] <= Head(s)[2] THEN <<ev>> \o s
    ELSE <<Head(s)>> \o InsertPair(ev, Tail(s))

RECURSIVE SortByWd(_)
SortByWd(s) == IF s = <<>> THEN <<>> ELSE InsertPair(Head(s), SortByWd(Tail(s)))

\* wn kept in the order of wd's pairs instead of being sorted itself
WnPaired(evalues) ==
    LET s == SortByWd(evalues) IN [i \in 1..Len(s) |-> Magnitude(s[i])]

\* wn: the magnitude |lambda| of each conjugate pair, sorted ascending
Wn(evalues) == SortAsc([i \in 1..Len(evalues) |-> Magnitude(evalues[i])])

\* Rotor.run() on the eigenvalues the solver returned, one <<sigma, omega_d>>
\* per conjugate pair
run(r, evalues) ==
    [r EXCEPT !.ran = TRUE, !.evalues = evalues,
              !.wn = Wn(evalues), !.wd = Wd(evalues)]

----------------------------------------------------------------------------
(* the calls the model makes *)

\* E and G_s are drawn from 0..MaxModulus
MaxModulus == 3

\* Poisson is drawn from -1, -3/4, ..., MaxQuarter/4
MaxQuarter == 2

Keys == {"E", "G_s", "Poisson", "color"}

Red == Str(<<"r", "e", "d">>)

NameA == Str(<<"a">>)
NameB == Str(<<"b">>)
NameSpace == Str(<<"a", " ", "b">>)
NameTab == Str(<<"a", "\t">>)

ModulusVals == {None} \cup {Number(i) : i \in 0..MaxModulus}
PoissonVals == {None} \cup {Num(k, 4) : k \in (-4)..MaxQuarter}

KwRange(k) ==
    CASE k = "E" -> ModulusVals
      [] k = "G_s" -> ModulusVals
      [] k = "Poisson" -> PoissonVals
      [] OTHER -> {Red}

\* every **kwargs over Keys: each key absent, or present with a value of its range
AllKwargs ==
    UNION {{f \in [D -> ModulusVals \cup PoissonVals \cup {Red}] :
               \A k \in D : f[k] \in KwRange(k)} : D \in SUBSET Keys}

NoKwargs == [k \in {} |-> None]

NoCall == [pending |-> FALSE, name |-> None, rho |-> None, kwargs |-> NoKwargs]

\* the constructor calls of SpecCtor
CtorCalls ==
    [pending : {TRUE},
     name : {None, Number(7), NameA, NameB, NameSpace, NameTab},
     rho : {Number(1), Number(7810)},
     kwargs : AllKwargs]

Kw2(k1, v1, k2, v2) == [k \in {k1, k2} |-> IF k = k1 THEN v1 ELSE v2]

\* the constructor calls of SpecObj
ObjCalls ==
    [pending : {TRUE},
     name : {None, NameA, NameSpace},
     rho : {Number(1), Number(100000), Number(100001)},
     kwargs : {Kw2("E", Number(3), "G_s", Number(1)),
               Kw2("E", Number(2), "Poisson", Number(0))}]

RenameArgs == {NameB, NameSpace, Number(7), None}

\* the constructor calls and the renames of Spec
CatCalls ==
    [pending : {TRUE},
     name : {NameA, NameB},
     rho : {Number(1), Number(2)},
     kwargs : {Kw2("E", Number(3), "G_s", Number(1))}]

CatRenames == {NameSpace}

CatNames == {NameA, NameB, NameSpace}

Paths == {DefaultPath, "tmp"}

Slots == {"m1", "m2"}

\* a Rotor has 1..MaxEl shaft elements
MaxEl == 2

\* the solver returns 1..MaxModes conjugate pairs
MaxModes == 3

\* <<sigma, omega_d>>: decay rate and damped frequency of a conjugate pair
EigPairs == {<<0, 3>>, <<0, 4>>, <<0, 5>>, <<4, 3>>, <<3, 4>>, <<12, 5>>}

Dampings == {0, 3000}

----------------------------------------------------------------------------
(* the state machine *)

NoRet ==
    [op |-> "", status |-> "", msg |-> "", name |-> None, path |-> "",
     a |-> "", b |-> "", val |-> <<>>]

\* m = Material(name, rho, **kwargs)
New(slot, c) ==
    LET r == __init__(c.name, c.rho, c.kwargs)
    IN /\ mats' = IF r.status = "ok" THEN Put(mats, slot, r.obj) ELSE mats
       /\ ret' = [NoRet EXCEPT !.op = "Material", !.status = r.status,
                               !.msg = r.msg, !.name = c.name, !.a = slot]

\* the call drawn by Init is made
Construct ==
    /\ call.pending
    /\ New("m1", call)
    /\ call' = [call EXCEPT !.pending = FALSE]
    /\ UNCHANGED <<fs, saved, rotor>>

Create(slot, c) ==
    /\ New(slot, c)
    /\ UNCHANGED <<call, fs, saved, rotor>>

\* m.name = name
Rename(slot, name) ==
    /\ slot \in DOMAIN mats
    /\ mats' = [mats EXCEPT ![slot] = SetName(@, name)]
    /\ ret' = [NoRet EXCEPT !.op = "name.setter", !.status = "ok",
                            !.name = name, !.a = slot]
    /\ UNCHANGED <<call, fs, saved, rotor>>

\* a == b
Eq(a, b) ==
    /\ a \in DOMAIN mats /\ b \in DOMAIN mats
    /\ ret' = [NoRet EXCEPT !.op = "__eq__", !.status = "ok",
                            !.msg = IF __eq__(mats[a], mats[b]) THEN "True" ELSE "False",
                            !.a = a, !.b = b]
    /\ UNCHANGED <<call, mats, fs, saved, rotor>>

\* m.save_material(path)
Save(slot, path) ==
    /\ slot \in DOMAIN mats
    /\ fs' = save_material(mats[slot], fs, path)
    /\ saved' = IF path = saved.path
                THEN [saved EXCEPT !.names = @ \cup {mats[slot]["_name"]}]
                ELSE saved
    /\ ret' = [NoRet EXCEPT !.op = "save_material", !.status = "ok",
                            !.name = mats[slot]["_name"], !.path = path, !.a = slot]
    /\ UNCHANGED <<call, mats, rotor>>

\* m = Material.use_material(name, path)
Use(slot, name, path) ==
    LET u == use_material(fs, name, path)
    IN /\ fs' = u.files
       /\ mats' = IF u.r.status = "ok" THEN Put(mats, slot, u.r.obj) ELSE mats
       /\ ret' = [NoRet EXCEPT !.op = "use_material", !.status = u.r.status,
                               !.msg = u.r.msg, !.name = name, !.path = path,
                               !.a = slot]
       /\ UNCHANGED <<call, saved, rotor>>

\* Material.remove_material(name, path)
Remove(name, path) ==
    LET u == remove_material(fs, name, path)
    IN /\ fs' = u.files
       /\ saved' = IF path = saved.path
                   THEN [saved EXCEPT !.names = @ \ {name}]
                   ELSE saved
       /\ ret' = [NoRet EXCEPT !.op = "remove_material", !.status = u.r.status,
                               !.msg = u.r.msg, !.name = name, !.path = path]
       /\ UNCHANGED <<call, mats, rotor>>

\* Material.available_materials(path)
Available(path) ==
    LET u == available_materials(fs, path)
    IN /\ fs' = u.files
       /\ ret' = [NoRet EXCEPT !.op = "available_materials", !.status = "ok",
                               !.path = path, !.val = u.val]
       /\ UNCHANGED <<call, mats, saved, rotor>>

NoHistory == [path |-> "", names |-> {}]

NoFiles == [p \in {} |-> EmptyData]

NoMats == [s \in {} |-> NoObj]

\* the constructor as a function of its arguments
InitCtor ==
    /\ call \in CtorCalls
    /\ mats = NoMats
    /\ fs = NoFiles
    /\ saved = NoHistory
    /\ ret = NoRet
    /\ rotor = NoRotor

NextCtor == Construct

SpecCtor == InitCtor /\ [][NextCtor]_vars

\* objects in memory
Init ==
    /\ call = NoCall
    /\ mats = NoMats
    /\ fs = NoFiles
    /\ saved = NoHistory
    /\ ret = NoRet
    /\ rotor = NoRotor

NextObj ==
    \/ \E slot \in Slots, c \in ObjCalls : Create(slot, c)
    \/ \E slot \in Slots, name \in RenameArgs : Rename(slot, name)
    \/ \E a \in Slots, b \in Slots : Eq(a, b)

SpecObj == Init /\ [][NextObj]_vars

\* one object and the catalogs under Paths
Next ==
    \/ \E c \in CatCalls : Create("m1", c)
    \/ \E name \in CatRenames : Rename("m1", name)
    \/ \E path \in Paths : Save("m1", path)
    \/ \E name \in CatNames, path \in Paths : Use("m1", name, path)
    \/ \E name \in CatNames, path \in Paths : Remove(name, path)
    \/ \E path \in Paths : Available(path)

Spec == Init /\ [][Next]_vars

\* one object and one catalog path, with the history of that path
InitPath ==
    /\ call = NoCall
    /\ mats = NoMats
    /\ fs = NoFiles
    /\ saved \in [path : Paths, names : {{}}]
    /\ ret = NoRet
    /\ rotor = NoRotor

NextPath ==
    \/ \E c \in CatCalls : Create("m1", c)
    \/ \E name \in CatRenames : Rename("m1", name)
    \/ Save("m1", saved.path)
    \/ \E name \in CatNames : Use("m1", name, saved.path)
    \/ \E name \in CatNames : Remove(name, saved.path)
    \/ Available(saved.path)

SpecPath == InitPath /\ [][NextPath]_vars

\* rotor = Rotor(shaft_elm, [disk], [bearing0, bearing1]), once: a call that
\* raises produces no object and another call may follow
RotorNew(n_el, dn, bn, c) ==
    LET r == Rotor(n_el, {dn}, {<<0, c>>, <<bn, c>>})
    IN /\ ~rotor.built
       /\ rotor' = r.rotor
       /\ ret' = [NoRet EXCEPT !.op = "Rotor", !.status = r.status, !.msg = r.msg,
                               !.val = <<n_el, dn, bn, c>>]
       /\ UNCHANGED <<call, mats, fs, saved>>

\* rotor.run(): the eigen-solve returns evalues; without damping they are
\* purely imaginary (sigma = 0)
Run(evalues) ==
    /\ rotor.built /\ ~rotor.ran
    /\ Len(evalues) <= rotor.dim
    /\ Undamped(rotor) => \A i \in 1..Len(evalues) : evalues[i][1] = 0
    /\ rotor' = run(rotor, evalues)
    /\ ret' = [NoRet EXCEPT !.op = "run", !.status = "ok"]
    /\ UNCHANGED <<call, mats, fs, saved>>

NextRotor ==
    \/ \E n_el \in 1..MaxEl, dn \in (-1)..(MaxEl + 1), bn \in (-1)..(MaxEl + 1),
          c \in Dampings : RotorNew(n_el, dn, bn, c)
    \/ \E k \in 1..MaxModes : \E evalues \in [1..k -> EigPairs] : Run(evalues)

SpecRotor == Init /\ [][NextRotor]_vars

----------------------------------------------------------------------------
(* the claims *)

Props == {"E", "G_s", "Poisson"}

\* the properties among E, G_s and Poisson a call supplies
Supplied(kwargs) == DOMAIN kwargs \cap Props

\* E = 2 * G_s * (1 + Poisson)
Isotropic(m) ==
    m["E"] = RMul(Number(2), RMul(m["G_s"], RAdd(Number(1), m["Poisson"])))

\* C1: a Material constructed with exactly two of E, G_s and Poisson supplied
\* keeps the two it was given and has the third derived, so that
\* E = 2 * G_s * (1 + Poisson) holds of the object.
C1_ThirdDerived ==
    (~call.pending /\ ret.status = "ok" /\ Cardinality(Supplied(call.kwargs)) = 2) =>
        /\ \A k \in Props : IsNum(mats["m1"][k])
        /\ \A k \in Supplied(call.kwargs) : mats["m1"][k] = call.kwargs[k]
        /\ Isotropic(mats["m1"])

\* G_s was derived from E = 3 and Poisson = 1/2: 3 / (2 * 3/2) = 1
C1_Witness ==
    /\ ~call.pending /\ ret.status = "ok"
    /\ Supplied(call.kwargs) = {"E", "Poisson"}
    /\ call.kwargs["E"] = Number(3) /\ call.kwargs["Poisson"] = Num(1, 2)
    /\ mats["m1"]["G_s"] = Number(1)

FieldwiseClose(a, b) ==
    \A k \in {"rho", "E", "G_s", "Poisson"} : IsClose(a[k], b[k])

\* C2: a == b is true if and only if rho, E, G_s and Poisson of a and b are
\* field-wise approximately equal.
C2_EqIffFieldwiseClose ==
    ret.op = "__eq__" =>
        ((ret.msg = "True") <=> FieldwiseClose(mats[ret.a], mats[ret.b]))

CountMsg == "At least 2 arguments from E, G_s and Poisson should be provided"

\* C3 as stated: a call that supplies fewer than two of E, G_s and Poisson
\* fails with the property-count error and produces no Material.
C3_CountErrorAlways ==
    (~call.pending /\ Cardinality(Supplied(call.kwargs)) < 2) =>
        /\ ret.status = "AssertionError" /\ ret.msg = CountMsg
        /\ mats = NoMats

\* C3: a call that supplies fewer than two of E, G_s and Poisson fails with
\* an AssertionError and produces no Material; the error is the
\* property-count error when the name is a string without a space (the name
\* is checked first).
C3_CountError ==
    (~call.pending /\ Cardinality(Supplied(call.kwargs)) < 2) =>
        /\ ret.status = "AssertionError"
        /\ mats = NoMats
        /\ (IsStr(call.name) /\ ~HasSpace(call.name.s)) => ret.msg = CountMsg

\* a well-named call with E alone (and a color) failed with the count error
C3_Witness ==
    /\ ~call.pending
    /\ call.name = NameA
    /\ DOMAIN call.kwargs = {"E", "color"}
    /\ ret.status = "AssertionError" /\ ret.msg = CountMsg
    /\ mats = NoMats

Whitespace == {" ", "\t", "\n"}

\* C4: after construction and any renames, the name of every Material is a
\* string that contains no whitespace.
C4_NameHasNoWhitespace ==
    \A v \in DOMAIN mats :
        /\ IsStr(mats[v]["_name"])
        /\ \A i \in 1..Len(mats[v]["_name"].s) : mats[v]["_name"].s[i] \notin Whitespace

\* C5: m.save_material(p) followed by Material.use_material(m.name, p)
\* succeeds and returns a Material equal to m as it was saved, attribute by
\* attribute.
C5_SaveThenUse ==
    [][(/\ ret.op = "save_material" /\ ret'.op = "use_material"
        /\ ret'.name = ret.name /\ ret'.path = ret.path)
       => (ret'.status = "ok" /\ mats'[ret'.a] = mats[ret.a])]_vars

\* the materials of the catalog at a path; a missing file holds none
Entries(files, path) ==
    IF path \in DOMAIN files THEN files[path].Materials ELSE EmptyData.Materials

\* C6: use_material(name, path) for a name that is not in the catalog at
\* path raises KeyError, returns no Material and leaves the entries of every
\* catalog as they were (a missing file counting as an empty catalog).
C6_UseOfMissingName ==
    [][(ret'.op = "use_material" /\ ret'.name \notin DOMAIN Entries(fs, ret'.path))
       => (/\ ret'.status = "KeyError"
           /\ mats' = mats
           /\ \A p \in Paths : Entries(fs', p) = Entries(fs, p))]_vars

\* a name was looked up in a catalog that holds another material only
C6_Witness ==
    /\ ret.op = "use_material" /\ ret.status = "KeyError"
    /\ DOMAIN Entries(fs, ret.path) # {}
    /\ ret.name \notin DOMAIN Entries(fs, ret.path)

Ascending(s) == \A i \in 1..(Len(s) - 1) : s[i] <= s[i + 1]

C8_NodeOutOfRangeFails ==
    (/\ ret.op = "Rotor"
     /\ \E i \in {2, 3} : ret.val[i] < 0 \/ ret.val[i] > ret.val[1])
    => (ret.status = "error" /\ rotor = NoRotor)

\* a bearing one node past the shaft's last node was refused
C8_Witness ==
    /\ ret.op = "Rotor" /\ ret.status = "error"
    /\ ret.val[3] = ret.val[1] + 1
    /\ ret.val[2] \in 0..ret.val[1]
    /\ rotor = NoRotor

\* C9: remove_material(name, p) for a name in the catalog at p deletes that
\* entry from the catalog at p and changes nothing else, there or at another
\* path.
C9_RemoveDeletesThere ==
    [][(ret'.op = "remove_material" /\ ret'.name \in DOMAIN Entries(fs, ret'.path))
       => \A p \in Paths :
              Entries(fs', p) = IF p = ret'.path
                                THEN Del(Entries(fs, p), ret'.name)
                                ELSE Entries(fs, p)]_vars

\* C10: after any calls of save_material, remove_material and use_material
\* on one path, available_materials of that path lists exactly the names
\* saved there and not removed since, each once.
C10_AvailableListsSaved ==
    ret.op = "available_materials" =>
        /\ \A i \in 1..Len(ret.val) : ret.val[i] \in saved.names
        /\ \A nm \in saved.names :
               Cardinality({i \in 1..Len(ret.val) : ret.val[i] = nm}) = 1

====
